---- MODULE Spec2Model ----
(***************************************************************************)
(* Model of bet.py: a Monte Carlo simulation of a biased coin-flip betting *)
(* game under several betting strategies.                                  *)
(*                                                                         *)
(* Five specifications share the variables and the trial operators:        *)
(*   Spec      the program run(args): the catalog built by StrategiesToRun,*)
(*             run_strategy for every entry, the best-policy bookkeeping   *)
(*             and the emitted lines;                                      *)
(*   TrialSpec run_strategy(name, strategy, n) on an arbitrary Strategy    *)
(*             object (any constructor arguments, not only the catalog's); *)
(*   KellySpec TrialSpec restricted to KellyBetStrategy with               *)
(*             win_is_bet_amount, under weak fairness of the next step;    *)
(*   LongSpec  one Strategy.run call followed past the cap on counted      *)
(*             steps, under weak fairness of the next step;                *)
(*   PairSpec  two Strategy.run trials fed the same draws, side by side.   *)
(*                                                                         *)
(* Probabilities, draws and fractions are held as integer hundredths:      *)
(* p = 50 is the float 0.5, fraction = 25 is 25 / 100.0.                    *)
(***************************************************************************)
EXTENDS Integers, Sequences, FiniteSets, TLC

(* ---------------------------- bounds ----------------------------------- *)
MaxStart == 3
MaxTarget == 4
MaxN == 2
MaxMinBet == 2
\* bounds of the arguments of run(args) in Spec
RunMaxStart == 2
RunMaxTarget == 3
RunMaxN == 1
\* cap on the bets of one trial: nsteps (and with it total_bet) grows without
\* bound when win_is_bet_amount is false
MaxSteps == 6

\* values of p (hundredths): below 0, the ends of [0,1], inside, above 1
PSet == {-50, 0, 50, 100, 150}
\* values of args.probability in Spec
RunPSet == {-50, 50, 150}
\* values random.uniform(0, 1) can return (hundredths)
QSet == {0, 50, 100}
\* fractions (hundredths) a FractionBetStrategy / FractionCumulativeBetStrategy
\* is constructed with in TrialSpec
FractionSet == {1, 25, 50, 100}

None == <<"None", 0>>

VARIABLES
    args,        \* argparse namespace handed to run()
    strategies,  \* StrategiesToRun.strategies: insertion-ordered name -> Strategy
    idx,         \* position of "for name in strategies" (1-based, next to visit)
    name,        \* run_strategy's name
    strategy,    \* run_strategy's strategy (the object Strategy.run runs on)
    n,           \* run_strategy's n
    i,           \* number of completed iterations of "for i in range(n)"
    nwins,       \* run_strategy's nwins
    best,        \* run()'s best
    best_nwins,  \* run()'s best_nwins
    out,         \* lines written to args.outfile after the header: <<name, nwins, n>>
    summary,     \* the "Best:" line written to stdout, None before it is written
    pc,          \* control position
    curr,        \* Strategy.run's curr
    total_bet,   \* Strategy.run's total_bet
    nsteps,      \* Strategy.run's nsteps
    bet,         \* Strategy.run's bet (last value assigned in the current trial)
    result,      \* last value returned by Strategy.run
    twin         \* PairSpec only: the second trial, run on twin.strategy

vars == <<args, strategies, idx, name, strategy, n, i, nwins, best, best_nwins,
          out, summary, pc, curr, total_bet, nsteps, bet, result, twin>>

(* ------------------------- arithmetic helpers -------------------------- *)
Min(a, b) == IF a <= b THEN a ELSE b
Max(a, b) == IF a >= b THEN a ELSE b

\* int(round(num / den)) for num >= 0, den > 0: Python 3 rounds halves to even.
\* For the fractions of FractionSet and the catalog sweep the float product
\* fraction * x is the correctly rounded num/den and falls on the same side
\* of every half for all x < 45, which covers every value reachable here.
RoundHalfEven(num, den) ==
    LET fl == num \div den
        r2 == 2 * (num % den)
    IN  IF r2 < den THEN fl
        ELSE IF r2 > den THEN fl + 1
        ELSE IF fl % 2 = 0 THEN fl ELSE fl + 1

(* ------------------------------ Strategy ------------------------------- *)
\* Strategy.__init__ and the subclasses' __init__: the object's fields.
\* bet_size, fraction, starting_bet are 0 for the classes that lack them.
NewStrategy(kind, p, start, target, min_bet, wib, bet_size, fraction, starting_bet) ==
    [kind |-> kind, p |-> p, start |-> start, target |-> target,
     min_bet |-> min_bet, win_is_bet_amount |-> wib,
     bet_size |-> bet_size, fraction |-> fraction, starting_bet |-> starting_bet]

should_bet_again_NoRuin(self, c, tb) ==
    IF self.win_is_bet_amount THEN tb < self.target
    ELSE c < self.target

should_bet_again_Inclusive(self, c, tb) ==
    IF c < self.min_bet THEN FALSE
    ELSE IF self.win_is_bet_amount THEN tb <= self.target
    ELSE c <= self.target

should_bet_again(self, c, tb) ==
    IF c < self.min_bet THEN FALSE
    ELSE IF self.win_is_bet_amount THEN tb < self.target
    ELSE c < self.target

AllBet_AsMinBet(self, c, tb) == self.min_bet

AllBet_get_next_bet(self, c, tb) == c

MinBet_AsAllBet(self, c, tb) == c

MinBet_get_next_bet(self, c, tb) == self.min_bet

FixedBet_get_next_bet(self, c, tb) == Min(self.bet_size, c)

FractionBet_OfTotal(self, c, tb) == RoundHalfEven(self.fraction * tb, 100)

FractionBet_get_next_bet(self, c, tb) == RoundHalfEven(self.fraction * c, 100)

FractionCumulativeBet_get_next_bet(self, c, tb) ==
    IF tb = 0 THEN self.starting_bet
    ELSE RoundHalfEven(self.fraction * tb, 100)

KellyBet_AllInToTarget(self, c, tb) ==
    IF self.win_is_bet_amount
    THEN IF c >= self.target - tb THEN self.target - tb
         ELSE Min((self.target - tb - c + 1) \div 2, c)
    ELSE c

KellyBet_AllWhenEnough(self, c, tb) ==
    IF self.win_is_bet_amount
    THEN IF c >= self.target - tb THEN c
         ELSE Min((self.target - tb - c + 1) \div 2, c)
    ELSE Min(c, self.target - c)

KellyBet_get_next_bet(self, c, tb) ==
    IF self.win_is_bet_amount
    THEN IF c >= self.target - tb THEN self.target - tb
         ELSE Min((self.target - tb - c + 1) \div 2, c)
    ELSE Min(c, self.target - c)

\* dynamic dispatch of self.get_next_bet
get_next_bet(self, c, tb) ==
    CASE self.kind = "all" -> AllBet_get_next_bet(self, c, tb)
      [] self.kind = "min" -> MinBet_get_next_bet(self, c, tb)
      [] self.kind = "fixed" -> FixedBet_get_next_bet(self, c, tb)
      [] self.kind = "fraction" -> FractionBet_get_next_bet(self, c, tb)
      [] self.kind = "cum_fraction" -> FractionCumulativeBet_get_next_bet(self, c, tb)
      [] self.kind = "kelly" -> KellyBet_get_next_bet(self, c, tb)

\* the local state of one Strategy.run call
Trial(c, tb, ns, b, at) ==
    [curr |-> c, total_bet |-> tb, nsteps |-> ns, bet |-> b, pc |-> at]

RunEntry_KeepsBankroll(self) == Trial(curr, 0, 0, 0, "loop")

\* lines 25-27
RunEntry(self) == Trial(self.start, 0, 0, 0, "loop")

PlacedBet_MinNotMax(self, b) == Min(self.min_bet, b)

PlacedBet_NoClamp(self, b) == b

\* the runner's adjustment of the stake, line 33
PlacedBet(self, b) == Max(self.min_bet, b)

\* the settlement of one bet against the draw q, lines 37-40
Settle(self, c, b, q) == IF self.p >= q THEN c + b ELSE c - b

Iterate_ResizeToBankroll(self, t, q) ==
    IF ~should_bet_again(self, t.curr, t.total_bet)
    THEN [t EXCEPT !.pc = "ret"]
    ELSE LET b == Min(get_next_bet(self, t.curr, t.total_bet), t.curr)
             pb == PlacedBet(self, b)
         IN  Trial(Settle(self, t.curr, pb, q), t.total_bet + pb,
                   t.nsteps + 1, pb, "loop")

\* one evaluation of the while condition and, if it holds, one pass through
\* the loop body with draw q (lines 29-40); t.pc is "ret" once the condition
\* failed and "brk" once the break of line 32 was taken
Iterate(self, t, q) ==
    IF ~should_bet_again(self, t.curr, t.total_bet)
    THEN [t EXCEPT !.pc = "ret"]
    ELSE LET b == get_next_bet(self, t.curr, t.total_bet) IN
         IF b > t.curr
         THEN [t EXCEPT !.bet = b, !.pc = "brk"]
         ELSE LET pb == PlacedBet(self, b) IN
              Trial(Settle(self, t.curr, pb, q), t.total_bet + pb,
                    t.nsteps + 1, pb, "loop")

RunResult_Strict(self, t) ==
    IF self.win_is_bet_amount THEN t.total_bet > self.target
    ELSE t.curr > self.target

\* lines 42-45
RunResult(self, t) ==
    IF self.win_is_bet_amount THEN t.total_bet >= self.target
    ELSE t.curr >= self.target

(* --------------------------- StrategiesToRun --------------------------- *)
\* the catalog sweeps "fraction in range(1, 101)"; the model's catalog keeps
\* these members of the sweep
SweepFractions == {50}

\* the f-th smallest-first enumeration of a finite set of integers
RECURSIVE SortedSeq(_)
SortedSeq(S) ==
    IF S = {} THEN << >>
    ELSE LET m == CHOOSE x \in S : \A y \in S : x <= y
         IN  <<m>> \o SortedSeq(S \ {m})

Entry(nm, obj) == [name |-> nm, obj |-> obj]

Catalog_KellyFirst(a) ==
    LET p == a.probability
        s == a.start
        t == a.target
        w == a.win_is_bet
        fr == SortedSeq(SweepFractions)
    IN  << Entry(<<"kelly", 0>>, NewStrategy("kelly", p, s, t, 1, w, 0, 0, 0)),
           Entry(<<"all", 0>>, NewStrategy("all", p, s, t, 1, w, 0, 0, 0)),
           Entry(<<"min", 0>>, NewStrategy("min", p, s, t, 1, w, 0, 0, 0)) >>
        \o [k \in 1..Max(s, 0) |->
              Entry(<<"fixed", k>>, NewStrategy("fixed", p, s, t, 1, w, k, 0, 0))]
        \o [k \in 1..Len(fr) |->
              Entry(<<"fraction", fr[k]>>,
                    NewStrategy("fraction", p, s, t, 1, w, 0, fr[k], 0))]
        \o [k \in 1..Len(fr) |->
              Entry(<<"cum_fraction", fr[k]>>,
                    NewStrategy("cum_fraction", p, s, t, 1, w, 0, fr[k], 1))]

\* StrategiesToRun.__init__: the dict in insertion order
Catalog(a) ==
    LET p == a.probability
        s == a.start
        t == a.target
        w == a.win_is_bet
        fr == SortedSeq(SweepFractions)
    IN  << Entry(<<"all", 0>>, NewStrategy("all", p, s, t, 1, w, 0, 0, 0)),
           Entry(<<"min", 0>>, NewStrategy("min", p, s, t, 1, w, 0, 0, 0)) >>
        \o [k \in 1..Max(s, 0) |->
              Entry(<<"fixed", k>>, NewStrategy("fixed", p, s, t, 1, w, k, 0, 0))]
        \o [k \in 1..Len(fr) |->
              Entry(<<"fraction", fr[k]>>,
                    NewStrategy("fraction", p, s, t, 1, w, 0, fr[k], 0))]
        \o [k \in 1..Len(fr) |->
              Entry(<<"cum_fraction", fr[k]>>,
                    NewStrategy("cum_fraction", p, s, t, 1, w, 0, fr[k], 1))]
        \o << Entry(<<"kelly", 0>>, NewStrategy("kelly", p, s, t, 1, w, 0, 0, 0)) >>

NoStrategy == NewStrategy("none", 0, 0, 0, 1, FALSE, 0, 0, 0)
NoTrial == Trial(0, 0, 0, 0, "idle")
NoTwin == [strategy |-> NoStrategy, t |-> NoTrial, result |-> FALSE]
NoArgs == [probability |-> 0, start |-> 0, target |-> 0, num_rounds |-> 0,
           win_is_bet |-> FALSE]

ArgsSet ==
    [probability : RunPSet, start : 0..RunMaxStart, target : 0..RunMaxTarget,
     num_rounds : -1..RunMaxN, win_is_bet : BOOLEAN]

(* ------------------------------- run() --------------------------------- *)
\* run(args) up to the "for name in strategies" loop: lines 154-159
Init ==
    /\ args \in ArgsSet
    /\ strategies = Catalog(args)
    /\ idx = 1
    /\ name = None
    /\ strategy = NoStrategy
    /\ n = args.num_rounds
    /\ i = 0
    /\ nwins = 0
    /\ best = None
    /\ best_nwins = 0
    /\ out = << >>
    /\ summary = None
    /\ pc = "for_name"
    /\ curr = 0
    /\ total_bet = 0
    /\ nsteps = 0
    /\ bet = 0
    /\ result = FALSE
    /\ twin = NoTwin

TrialVars == <<curr, total_bet, nsteps, bet>>
RunVars == <<args, strategies, idx, best, best_nwins, out, summary>>

ThisTrial == Trial(curr, total_bet, nsteps, bet, pc)

SetTrial(t) ==
    /\ curr' = t.curr
    /\ total_bet' = t.total_bet
    /\ nsteps' = t.nsteps
    /\ bet' = t.bet
    /\ pc' = t.pc

\* lines 160-162: the next name of the dict, and the call of run_strategy
NextStrategy ==
    /\ pc = "for_name"
    /\ idx <= Len(strategies)
    /\ name' = strategies[idx].name
    /\ strategy' = strategies[idx].obj
    /\ nwins' = 0
    /\ i' = 0
    /\ pc' = "for_i"
    /\ UNCHANGED <<RunVars, n, TrialVars, result, twin>>

\* line 113: strategy.run() is entered for trial i
TrialBegin ==
    /\ pc = "for_i"
    /\ i < n
    /\ SetTrial(RunEntry(strategy))
    /\ UNCHANGED <<RunVars, name, strategy, n, i, nwins, result, twin>>

\* lines 29-40: the loop condition holds, the stake is within the bankroll
Bet ==
    /\ pc = "loop"
    /\ should_bet_again(strategy, curr, total_bet)
    /\ get_next_bet(strategy, curr, total_bet) <= curr
    /\ nsteps < MaxSteps
    /\ \E q \in QSet : SetTrial(Iterate(strategy, ThisTrial, q))
    /\ UNCHANGED <<RunVars, name, strategy, n, i, nwins, result, twin>>

\* lines 29-32: the loop condition holds, the stake exceeds the bankroll
Break ==
    /\ pc = "loop"
    /\ should_bet_again(strategy, curr, total_bet)
    /\ get_next_bet(strategy, curr, total_bet) > curr
    /\ \E q \in QSet : SetTrial(Iterate(strategy, ThisTrial, q))
    /\ UNCHANGED <<RunVars, name, strategy, n, i, nwins, result, twin>>

\* line 29: the loop condition fails
LoopExit ==
    /\ pc = "loop"
    /\ ~should_bet_again(strategy, curr, total_bet)
    /\ \E q \in QSet : SetTrial(Iterate(strategy, ThisTrial, q))
    /\ UNCHANGED <<RunVars, name, strategy, n, i, nwins, result, twin>>

Return_PenalisesLoss ==
    /\ pc \in {"ret", "brk"}
    /\ result' = RunResult(strategy, ThisTrial)
    /\ nwins' = IF result' THEN nwins + 1 ELSE nwins - 1
    /\ i' = i + 1
    /\ pc' = "for_i"
    /\ UNCHANGED <<RunVars, name, strategy, n, TrialVars, twin>>

\* lines 42-45 and 113-114: Strategy.run returns, run_strategy counts the win;
\* curr, total_bet, nsteps and bet keep the trial's final values until the
\* next trial is entered
Return ==
    /\ pc \in {"ret", "brk"}
    /\ result' = RunResult(strategy, ThisTrial)
    /\ nwins' = IF result' THEN nwins + 1 ELSE nwins
    /\ i' = i + 1
    /\ pc' = "for_i"
    /\ UNCHANGED <<RunVars, name, strategy, n, TrialVars, twin>>

\* lines 112, 115-116: range(n) is exhausted, run_strategy returns nwins
RunStrategyReturn ==
    /\ pc = "for_i"
    /\ i >= n
    /\ pc' = "returned"
    /\ UNCHANGED <<RunVars, name, strategy, n, i, nwins, TrialVars, result, twin>>

\* lines 163-168: best-so-far bookkeeping and the result line;
\* nwins / n raises ZeroDivisionError when n = 0, after best was updated
Aggregate ==
    /\ pc = "returned"
    /\ IF nwins > best_nwins
       THEN best_nwins' = nwins /\ best' = name
       ELSE UNCHANGED <<best_nwins, best>>
    /\ IF n = 0
       THEN pc' = "ZeroDivisionError" /\ UNCHANGED <<out, idx>>
       ELSE /\ out' = Append(out, <<name, nwins, n>>)
            /\ idx' = idx + 1
            /\ pc' = "for_name"
    /\ UNCHANGED <<args, strategies, summary, name, strategy, n, i, nwins,
                   TrialVars, result, twin>>

\* line 170: the dict is exhausted, the summary line is written
Summary ==
    /\ pc = "for_name"
    /\ idx > Len(strategies)
    /\ summary' = <<best, best_nwins, n>>
    /\ pc' = "done"
    /\ UNCHANGED <<args, strategies, idx, best, best_nwins, out, name, strategy,
                   n, i, nwins, TrialVars, result, twin>>

Next ==
    \/ NextStrategy
    \/ TrialBegin
    \/ Bet
    \/ Break
    \/ LoopExit
    \/ Return
    \/ RunStrategyReturn
    \/ Aggregate
    \/ Summary

Spec == Init /\ [][Next]_vars

(* --------------------------- run_strategy ------------------------------ *)
\* the Strategy objects the constructors can build within the bounds
StrategySet ==
    LET Base(kind, bs, fr, sb) ==
            { NewStrategy(kind, p, s, t, m, w, bs, fr, sb) :
                p \in PSet, s \in 0..MaxStart, t \in 0..MaxTarget,
                m \in 1..MaxMinBet, w \in BOOLEAN }
    IN  Base("all", 0, 0, 0) \cup Base("min", 0, 0, 0) \cup Base("kelly", 0, 0, 0)
        \cup UNION { Base("fixed", bs, 0, 0) : bs \in 1..MaxStart }
        \cup UNION { Base("fraction", 0, fr, 0) : fr \in FractionSet }
        \cup UNION { Base("cum_fraction", 0, fr, sb) :
                       fr \in FractionSet, sb \in 0..MaxStart }

\* run_strategy(name, strategy, n) is entered: line 110
TrialInit ==
    /\ args = NoArgs
    /\ strategies = << >>
    /\ idx = 0
    /\ strategy \in StrategySet
    /\ name = <<strategy.kind, 0>>
    /\ n \in 1..MaxN
    /\ i = 0
    /\ nwins = 0
    /\ best = None
    /\ best_nwins = 0
    /\ out = << >>
    /\ summary = None
    /\ pc = "for_i"
    /\ curr = 0
    /\ total_bet = 0
    /\ nsteps = 0
    /\ bet = 0
    /\ result = FALSE
    /\ twin = NoTwin

TrialNext ==
    \/ TrialBegin
    \/ Bet
    \/ Break
    \/ LoopExit
    \/ Return
    \/ RunStrategyReturn

TrialSpec == TrialInit /\ [][TrialNext]_vars

\* KellyBetStrategy(p, start, target, win_is_bet_amount=True) with the default
\* min_bet and positive start and target
KellyWinIsBet(self) ==
    /\ self.kind = "kelly"
    /\ self.win_is_bet_amount
    /\ self.min_bet = 1
    /\ self.start > 0
    /\ self.target > 0

KellyInit == TrialInit /\ KellyWinIsBet(strategy)

\* a KellyBetStrategy never returns a stake above the bankroll: no Break
KellyNext ==
    \/ TrialBegin
    \/ Bet
    \/ LoopExit
    \/ Return
    \/ RunStrategyReturn

\* the interpreter keeps executing a program that has a next statement
KellySpec == KellyInit /\ [][KellyNext]_vars /\ WF_vars(KellyNext)

(* ------------------- trials of unbounded length ------------------------ *)
\* lines 29-40 past the cap: the bet is placed and settled as in Bet, and
\* nsteps and total_bet, which grow without bound, are left at their capped
\* values. With win_is_bet_amount a trial ends before the cap; without it
\* only FractionCumulativeBetStrategy reads total_bet.
BetOn ==
    /\ pc = "loop"
    /\ should_bet_again(strategy, curr, total_bet)
    /\ get_next_bet(strategy, curr, total_bet) <= curr
    /\ nsteps >= MaxSteps
    /\ \E q \in QSet :
         LET t == Iterate(strategy, ThisTrial, q)
         IN  curr' = t.curr /\ bet' = t.bet
    /\ UNCHANGED <<RunVars, name, strategy, n, i, nwins, result, twin,
                   nsteps, total_bet, pc>>

\* one call of Strategy.run on any Strategy object whose stakes do not depend
\* on a capped total_bet
LongInit ==
    /\ TrialInit
    /\ n = 1
    /\ strategy.kind = "cum_fraction" => strategy.win_is_bet_amount

LongNext ==
    \/ TrialBegin
    \/ Bet
    \/ BetOn
    \/ Break
    \/ LoopExit
    \/ Return
    \/ RunStrategyReturn

\* the interpreter keeps executing a program that has a next statement; the
\* draws are left arbitrary
LongSpec == LongInit /\ [][LongNext]_vars /\ WF_vars(LongNext)

(* ------------------------- two trials, same draws ---------------------- *)
\* FractionBetStrategy(p, start, target, fraction=1.0) next to
\* AllBetStragegy(p, start, target), both with the default min_bet
PairInit ==
    /\ args = NoArgs
    /\ strategies = << >>
    /\ idx = 0
    /\ \E p \in PSet, s \in 0..MaxStart, t \in 0..MaxTarget, w \in BOOLEAN :
         /\ strategy = NewStrategy("fraction", p, s, t, 1, w, 0, 100, 0)
         /\ twin = [strategy |-> NewStrategy("all", p, s, t, 1, w, 0, 0, 0),
                    t |-> Trial(0, 0, 0, 0, "for_i"), result |-> FALSE]
    /\ name = <<strategy.kind, 0>>
    /\ n \in 1..MaxN
    /\ i = 0
    /\ nwins = 0
    /\ best = None
    /\ best_nwins = 0
    /\ out = << >>
    /\ summary = None
    /\ pc = "for_i"
    /\ curr = 0
    /\ total_bet = 0
    /\ nsteps = 0
    /\ bet = 0
    /\ result = FALSE

\* the trial t of self takes its next pass of lines 29-40 with draw q, if it
\* is still in the loop (and below the cap when the pass is a bet)
Advance(self, t, q) ==
    IF /\ t.pc = "loop"
       /\ \/ t.nsteps < MaxSteps
          \/ ~should_bet_again(self, t.curr, t.total_bet)
          \/ get_next_bet(self, t.curr, t.total_bet) > t.curr
    THEN Iterate(self, t, q)
    ELSE t

\* both objects enter run()
PairBegin ==
    /\ pc = "for_i"
    /\ i < n
    /\ SetTrial(RunEntry(strategy))
    /\ twin' = [twin EXCEPT !.t = RunEntry(twin.strategy)]
    /\ UNCHANGED <<RunVars, name, strategy, n, i, nwins, result>>

\* both trials consume the same draw q
PairIterate ==
    /\ pc = "loop" \/ twin.t.pc = "loop"
    /\ \E q \in QSet :
         /\ SetTrial(Advance(strategy, ThisTrial, q))
         /\ twin' = [twin EXCEPT !.t = Advance(twin.strategy, twin.t, q)]
         /\ <<ThisTrial, twin.t>> # <<ThisTrial, twin.t>>'
    /\ UNCHANGED <<RunVars, name, strategy, n, i, nwins, result>>

\* both calls of run() return
PairReturn ==
    /\ pc \in {"ret", "brk"}
    /\ twin.t.pc \in {"ret", "brk"}
    /\ result' = RunResult(strategy, ThisTrial)
    /\ twin' = [twin EXCEPT !.result = RunResult(twin.strategy, twin.t),
                            !.t.pc = "for_i"]
    /\ nwins' = IF result' THEN nwins + 1 ELSE nwins
    /\ i' = i + 1
    /\ pc' = "for_i"
    /\ UNCHANGED <<RunVars, name, strategy, n, TrialVars>>

PairNext ==
    \/ PairBegin
    \/ PairIterate
    \/ PairReturn

PairSpec == PairInit /\ [][PairNext]_vars

(* ============================== claims ================================= *)
\* the loop of Strategy.run is about to ask the policy for a stake
Asking == pc = "loop" /\ should_bet_again(strategy, curr, total_bet)
NextBet == get_next_bet(strategy, curr, total_bet)
\* the target condition of the spec, on the trial's current state
TargetReached ==
    IF strategy.win_is_bet_amount THEN total_bet >= strategy.target
    ELSE curr >= strategy.target
\* the last trial is over and its result was handed to run_strategy
TrialOver == pc \in {"for_i", "returned"} /\ i > 0

\* C1 (as stated): whenever get_next_bet returns a stake that is 0 or
\* negative, the trial ends at once: loop left, total_bet, curr and nsteps
\* unchanged.
C1_ZeroStakeEndsTrial ==
    [][(Asking /\ NextBet <= 0 /\ nsteps < MaxSteps) =>
         (pc' \in {"ret", "brk"} /\ total_bet' = total_bet /\ curr' = curr
          /\ nsteps' = nsteps)]_vars

\* C1 (amended): whenever get_next_bet returns a stake that is 0 or negative,
\* the runner raises it to min_bet and plays it as an ordinary step: the trial
\* stays in the loop, nsteps grows by one, total_bet grows by min_bet and the
\* draw moves curr by min_bet up or down.
C1_ZeroStakeRaisedToMinBet ==
    [][(Asking /\ NextBet <= 0 /\ nsteps < MaxSteps) =>
         (/\ pc' = "loop"
          /\ nsteps' = nsteps + 1
          /\ bet' = strategy.min_bet
          /\ total_bet' = total_bet + strategy.min_bet
          /\ curr' \in {curr + strategy.min_bet, curr - strategy.min_bet})]_vars

\* C1 witness: the first step of a trial was played although the policy
\* returned a stake of 0 for the opening state
C1_Witness ==
    /\ pc = "loop"
    /\ nsteps = 1
    /\ should_bet_again(strategy, strategy.start, 0)
    /\ get_next_bet(strategy, strategy.start, 0) <= 0
    /\ total_bet = strategy.min_bet

\* C2: whenever get_next_bet returns a stake above the bankroll the loop is
\* left at once with curr, total_bet and nsteps unchanged (the stake is not
\* resized), and the trial that ended this way returns a loss.
C2_OverBankrollStops ==
    [][/\ (Asking /\ NextBet > curr) =>
            (pc' = "brk" /\ curr' = curr /\ total_bet' = total_bet
             /\ nsteps' = nsteps /\ bet' = NextBet)
       /\ pc = "brk" => (result' = FALSE /\ nwins' = nwins)]_vars

\* C2 witness: a trial was stopped by a stake above the bankroll after at
\* least one bet
C2_Witness == pc = "brk" /\ bet > curr /\ nsteps > 0

\* C3: Strategy.run returns win iff the target condition holds in the final
\* state of the trial, also when the loop was left by ruin.
C3_WinIffTargetReached == TrialOver => (result <=> TargetReached)

\* C3 witness: a trial that ended by ruin (bankroll below min_bet) and is a win
C3_Witness ==
    /\ TrialOver
    /\ nsteps > 0
    /\ curr < strategy.min_bet
    /\ result
    /\ TargetReached

\* C4: for KellyBetStrategy with win_is_bet_amount, min_bet = 1 and positive
\* start and target, total_bet <= target in every reachable state, and a
\* trial that is won ended with total_bet = target.
C4_KellyNeverOvershoots ==
    KellyWinIsBet(strategy) =>
        /\ total_bet <= strategy.target
        /\ (TrialOver /\ result) => total_bet = strategy.target

\* C4 witness: a Kelly trial won after several bets, the last of which was
\* the exact remaining need
C4_Witness ==
    /\ KellyWinIsBet(strategy)
    /\ TrialOver
    /\ result
    /\ nsteps >= 2
    /\ total_bet = strategy.target

\* C5: for KellyBetStrategy with win_is_bet_amount, min_bet = 1 and positive
\* start and target, a trial never takes more than target betting steps, and
\* every trial that is in its loop leaves it, whatever the draws.
C5_KellyTerminates ==
    /\ [](KellyWinIsBet(strategy) => nsteps <= strategy.target)
    /\ [](pc = "loop" => <>(pc = "ret"))

\* C5 witness: a Kelly trial that took exactly target steps and has ended
C5_Witness ==
    /\ KellyWinIsBet(strategy)
    /\ pc = "ret"
    /\ strategy.target >= 2
    /\ nsteps = strategy.target

\* the configuration the spec's error taxonomy calls valid
ValidArgs(a) ==
    /\ a.start > 0
    /\ a.target > 0
    /\ a.num_rounds > 0
    /\ a.probability >= 0
    /\ a.probability <= 100

RECURSIVE MaxWins(_)
MaxWins(lines) ==
    IF lines = << >> THEN 0
    ELSE Max(Head(lines)[2], MaxWins(Tail(lines)))

\* the name on the earliest line whose win count is w
RECURSIVE FirstWith(_, _)
FirstWith(lines, w) ==
    IF lines = << >> THEN None
    ELSE IF Head(lines)[2] = w THEN Head(lines)[1]
    ELSE FirstWith(Tail(lines), w)

\* C6 (as stated): once run() has processed all policies of a valid
\* configuration, the summary names the earliest-registered policy among those
\* with the maximum win count, and that maximum, also when every policy has
\* 0 wins.
C6_BestIsEarliestMaximum ==
    (pc = "done" /\ ValidArgs(args)) =>
        /\ summary[2] = MaxWins(out)
        /\ summary[1] = FirstWith(out, MaxWins(out))

\* C7 (as stated): from an invalid configuration no result line is emitted,
\* no trial is entered and no betting step is taken.
C7_InvalidConfigRejected ==
    ~ValidArgs(args) =>
        /\ out = << >>
        /\ pc \notin {"loop", "ret", "brk"}
        /\ i = 0
        /\ nsteps = 0

\* the locals of the two trials agree
SameTrial ==
    /\ curr = twin.t.curr
    /\ total_bet = twin.t.total_bet
    /\ nsteps = twin.t.nsteps
    /\ bet = twin.t.bet
    /\ pc = twin.t.pc

\* C8: FractionBetStrategy with fraction = 1.0 and min_bet = 1 and
\* AllBetStragegy of the same configuration, fed the same draws, are in the
\* same (curr, total_bet, nsteps) state after every step, placed the same
\* stake, leave the loop together and return the same result.
C8_FractionOneIsAllIn ==
    /\ SameTrial
    /\ result = twin.result

\* C8 witness: both trials were won after two doublings
C8_Witness ==
    /\ TrialOver
    /\ result
    /\ twin.result
    /\ nsteps = 2
    /\ twin.t.nsteps = 2
    /\ bet = 2 * strategy.start

\* MinBetStragegy with start < min_bet, win_is_bet_amount false, target > start
MinBetBelowMinimum(self) ==
    /\ self.kind = "min"
    /\ self.start < self.min_bet
    /\ ~self.win_is_bet_amount
    /\ self.target > self.start

\* C9: for MinBetStragegy with start < min_bet, win_is_bet_amount false and
\* target > start, every trial ends without a betting step (the loop
\* condition is false on entry, so the policy is never asked, total_bet stays
\* 0, curr stays start) and is a loss.
C9_MinBetBelowMinimumLoses ==
    MinBetBelowMinimum(strategy) =>
        /\ nsteps = 0
        /\ total_bet = 0
        /\ pc # "brk"
        /\ pc = "loop" => ~should_bet_again(strategy, curr, total_bet)
        /\ pc \in {"loop", "ret"} => curr = strategy.start
        /\ ~result
        /\ nwins = 0

\* C9 witness: all n trials of such a strategy are over, with a positive
\* start below min_bet
C9_Witness ==
    /\ MinBetBelowMinimum(strategy)
    /\ strategy.start > 0
    /\ pc = "returned"
    /\ i = n
    /\ nwins = 0

\* C11: during run_strategy the win counter satisfies 0 <= nwins <= (number
\* of trials run so far) <= n, and it never decreases as further trials run.
C11_WinCountBounded ==
    /\ [](0 <= nwins /\ nwins <= i /\ i <= n)
    /\ [][nwins' >= nwins]_vars

\* C11 witness: run_strategy has returned after two trials, one won, one lost
C11_Witness ==
    /\ pc = "returned"
    /\ i = n
    /\ n = 2
    /\ nwins = 1

\* the names the catalog registers for start s, in registration order
RegisteredNames(s) ==
    << <<"all", 0>>, <<"min", 0>> >>
    \o [k \in 1..Max(s, 0) |-> <<"fixed", k>>]
    \o [k \in 1..Len(SortedSeq(SweepFractions)) |->
          <<"fraction", SortedSeq(SweepFractions)[k]>>]
    \o [k \in 1..Len(SortedSeq(SweepFractions)) |->
          <<"cum_fraction", SortedSeq(SweepFractions)[k]>>]
    \o << <<"kelly", 0>> >>

\* C12: the result lines are the registered names in registration order
\* (all, min, fixed_1..fixed_start, fraction_*, cum_fraction_*, kelly), one
\* per policy once run() is done; a line is written only when all n trials of
\* its policy are over, and a trial of a policy starts only when the lines of
\* all earlier policies, and no other, are written.
C12_OneLinePerPolicyInOrder ==
    /\ [](/\ Len(out) <= Len(RegisteredNames(args.start))
          /\ \A k \in 1..Len(out) :
                out[k][1] = RegisteredNames(args.start)[k] /\ out[k][3] = n
          /\ pc = "done" => Len(out) = Len(RegisteredNames(args.start))
          /\ pc \in {"for_i", "loop", "ret", "brk", "returned"} =>
                /\ Len(out) = idx - 1
                /\ name = RegisteredNames(args.start)[idx])
    /\ [][out' # out =>
            /\ pc = "returned"
            /\ i >= n
            /\ i >= 0
            /\ out' = Append(out, <<name, nwins, n>>)]_vars

\* C12 witness: run() is done for start = 2 and n = 1: seven lines
C12_Witness ==
    /\ pc = "done"
    /\ args.start = 2
    /\ n = 1
    /\ Len(out) = 7
    /\ out[7][1] = <<"kelly", 0>>
    /\ out[4][1] = <<"fixed", 2>>

\* a bet was placed in this step
Placed == pc = "loop" /\ pc' = "loop" /\ nsteps' = nsteps + 1

\* FractionBetStrategy with min_bet = 1
FractionMinBetOne(self) == self.kind = "fraction" /\ self.min_bet = 1

\* C13: for FractionBetStrategy with min_bet = 1, whenever the policy is asked
\* in a running trial a bet is placed; if round(fraction * curr) is 0 the
\* stake placed is 1; every step adds the placed stake (at least 1) to
\* total_bet and moves curr by exactly that stake.
C13_FractionZeroBecomesOne ==
    [][(FractionMinBetOne(strategy) /\ Asking /\ nsteps < MaxSteps) =>
         /\ Placed
         /\ NextBet = 0 => bet' = 1
         /\ NextBet > 0 => bet' = NextBet
         /\ bet' >= 1
         /\ total_bet' = total_bet + bet'
         /\ total_bet' > total_bet
         /\ curr' \in {curr + bet', curr - bet'}]_vars

\* C13 witness: a FractionBet trial whose opening stake rounded to 0 has
\* placed 1 and lost it
C13_Witness ==
    /\ FractionMinBetOne(strategy)
    /\ pc = "loop"
    /\ nsteps = 1
    /\ should_bet_again(strategy, strategy.start, 0)
    /\ RoundHalfEven(strategy.fraction * strategy.start, 100) = 0
    /\ bet = 1
    /\ total_bet = 1
    /\ curr = strategy.start - 1

\* MinBetStragegy with min_bet = 1 and win_is_bet_amount
MinBetOneWinIsBet(self) ==
    self.kind = "min" /\ self.min_bet = 1 /\ self.win_is_bet_amount

\* C14: for MinBetStragegy with min_bet = 1 and win_is_bet_amount every stake
\* placed is exactly 1, total_bet equals nsteps in every state, and total_bet
\* never exceeds target (when the trial is over in particular).
C14_MinBetOnePerStep ==
    /\ [](MinBetOneWinIsBet(strategy) =>
            /\ total_bet = nsteps
            /\ nsteps > 0 => bet = 1
            /\ total_bet <= Max(strategy.target, 0)
            /\ TrialOver => total_bet <= Max(strategy.target, 0))
    /\ [][(MinBetOneWinIsBet(strategy) /\ Placed) =>
            (bet' = 1 /\ total_bet' = total_bet + 1)]_vars

\* C14 witness: a MinBet trial over with total_bet at the target after
\* several one-unit steps
C14_Witness ==
    /\ MinBetOneWinIsBet(strategy)
    /\ TrialOver
    /\ strategy.target >= 3
    /\ total_bet = strategy.target
    /\ nsteps = strategy.target
    /\ result

\* AllBetStragegy with win_is_bet_amount false, 0 < start < target <= 2*start
AllInOneDouble(self) ==
    /\ self.kind = "all"
    /\ ~self.win_is_bet_amount
    /\ 0 < self.start
    /\ self.start < self.target
    /\ self.target <= 2 * self.start

\* C15: for AllBetStragegy with win_is_bet_amount false and
\* 0 < start < target <= 2*start, once the first draw is made the trial is at
\* its end after exactly one step: total_bet = start and either curr = 2*start
\* and the result is a win, or curr = 0 and the result is a loss. For every
\* AllBetStragegy a lost draw sets curr to 0 and ends the loop.
C15_AllInOneStep ==
    /\ []((AllInOneDouble(strategy) /\ nsteps >= 1) =>
            /\ nsteps = 1
            /\ total_bet = strategy.start
            /\ bet = strategy.start
            /\ curr \in {0, 2 * strategy.start}
            /\ pc # "brk"
            /\ pc = "loop" => ~should_bet_again(strategy, curr, total_bet)
            /\ TrialOver => (result <=> curr = 2 * strategy.start))
    /\ [][(strategy.kind = "all" /\ Placed /\ curr' < curr) =>
            (curr' = 0 /\ ~should_bet_again(strategy, curr', total_bet'))]_vars

\* C15 witness: the first draw was a win, the trial is over and won after one
\* step with the bankroll doubled
C15_Witness ==
    /\ AllInOneDouble(strategy)
    /\ strategy.start >= 2
    /\ TrialOver
    /\ result
    /\ nsteps = 1
    /\ total_bet = strategy.start
    /\ curr = 2 * strategy.start

\* C16: for every policy and both modes (start >= 0, min_bet >= 1) the stake
\* placed in a step, after the runner's max(min_bet, bet), is at least min_bet
\* and at most the bankroll it is taken from, so curr >= 0 in every state.
C16_StakeWithinBankroll ==
    /\ [](curr >= 0)
    /\ [][Placed =>
            /\ strategy.min_bet <= bet'
            /\ bet' <= curr
            /\ bet' = Max(strategy.min_bet, NextBet)]_vars

\* C16 witness: with min_bet = 2 a policy stake of 1 was raised to 2 and lost
\* from a bankroll of at least 2
C16_Witness ==
    /\ strategy.min_bet = 2
    /\ pc = "loop"
    /\ nsteps = 1
    /\ get_next_bet(strategy, strategy.start, 0) = 1
    /\ bet = 2
    /\ curr = strategy.start - 2

\* a KellyBetStrategy with win_is_bet_amount is asked while the remaining
\* need target - total_bet is within the bankroll
KellyCanLockIn ==
    /\ strategy.kind = "kelly"
    /\ strategy.win_is_bet_amount
    /\ Asking
    /\ strategy.target - total_bet <= curr
    /\ nsteps < MaxSteps

\* C17 (as stated): for KellyBetStrategy with win_is_bet_amount, in a running
\* state where target - total_bet <= curr the stake placed is exactly the
\* remaining need, after that step total_bet = target, and the trial ends as
\* a win whatever the draw.
C17_KellyLocksInExactly ==
    [][KellyCanLockIn =>
         /\ Placed
         /\ bet' = strategy.target - total_bet
         /\ total_bet' = strategy.target
         /\ ~should_bet_again(strategy, curr', total_bet')]_vars

\* C17 (amended): in such a state the policy returns exactly the remaining
\* need and the runner places max(min_bet, need); after that step
\* total_bet >= target (total_bet = target when min_bet <= need, as always
\* with min_bet = 1), the loop ends and the target condition of a win holds,
\* whatever the draw.
C17_KellyLocksIn ==
    [][KellyCanLockIn =>
         /\ Placed
         /\ NextBet = strategy.target - total_bet
         /\ bet' = Max(strategy.min_bet, strategy.target - total_bet)
         /\ total_bet' = total_bet + bet'
         /\ strategy.min_bet <= strategy.target - total_bet =>
                total_bet' = strategy.target
         /\ total_bet' >= strategy.target
         /\ curr' \in {curr + bet', curr - bet'}
         /\ ~should_bet_again(strategy, curr', total_bet')]_vars

\* C17 witness: a Kelly trial placed the remaining need as its second or
\* later stake, lost that draw, and stands at total_bet = target
C17_Witness ==
    /\ strategy.kind = "kelly"
    /\ strategy.win_is_bet_amount
    /\ pc = "loop"
    /\ nsteps >= 2
    /\ total_bet = strategy.target
    /\ curr < bet
    /\ ~should_bet_again(strategy, curr, total_bet)

\* KellyBetStrategy with win_is_bet_amount false, min_bet = 1, 0 < start < target
KellyBankrollTarget(self) ==
    /\ self.kind = "kelly"
    /\ ~self.win_is_bet_amount
    /\ self.min_bet = 1
    /\ 0 < self.start
    /\ self.start < self.target

\* C18: for KellyBetStrategy with win_is_bet_amount false, min_bet = 1 and
\* 0 < start < target, every stake placed is min(curr, target - curr), so
\* 0 <= curr <= target while a trial runs, and a trial that is over ended
\* with curr = 0 (a loss) or curr = target (a win).
C18_KellyNeverOvershootsBankroll ==
    /\ [](KellyBankrollTarget(strategy) =>
            /\ 0 <= curr
            /\ curr <= strategy.target
            /\ pc # "brk"
            /\ pc = "ret" => curr \in {0, strategy.target}
            /\ TrialOver =>
                  /\ curr \in {0, strategy.target}
                  /\ result <=> curr = strategy.target)
    /\ [][(KellyBankrollTarget(strategy) /\ Placed) =>
            bet' = Min(curr, strategy.target - curr)]_vars

\* C18 witness: a trial that reached exactly the target in three or more
\* steps
C18_Witness ==
    /\ KellyBankrollTarget(strategy)
    /\ TrialOver
    /\ result
    /\ nsteps >= 3
    /\ curr = strategy.target

LoopLeft == pc \in {"ret", "brk"}

\* C19 (as stated): every trial terminates, for every policy, in both modes
\* and for every sequence of draws.
C19_EveryTrialTerminates == [](pc = "loop" => <>LoopLeft)

\* C19 (amended): with win_is_bet_amount every trial terminates, for every
\* policy and every sequence of draws, after at most ceil(target / min_bet)
\* steps, each step adding at least min_bet to total_bet.
C19_WinIsBetTrialTerminates ==
    /\ []((strategy.win_is_bet_amount /\ nsteps > 0) =>
            /\ (nsteps - 1) * strategy.min_bet < strategy.target
            /\ total_bet >= nsteps * strategy.min_bet)
    /\ []((strategy.win_is_bet_amount /\ pc = "loop") => <>LoopLeft)

\* C19 witness: a win_is_bet_amount trial with min_bet = 2 left its loop after
\* ceil(3 / 2) = 2 steps
C19_Witness ==
    /\ strategy.win_is_bet_amount
    /\ strategy.min_bet = 2
    /\ strategy.target = 3
    /\ pc = "ret"
    /\ nsteps = 2

\* control is inside run_strategy
InRunStrategy == pc \in {"for_i", "loop", "ret", "brk"}

\* C20: while run_strategy and Strategy.run execute, the Strategy object and
\* the catalog's objects keep all their fields (p, start, target, min_bet,
\* win_is_bet_amount, bet_size, fraction, starting_bet), and every trial is
\* entered with curr = start, total_bet = 0, nsteps = 0, whatever the state
\* the trial before it (of this or of an earlier policy) ended in.
C20_TrialsIndependent ==
    /\ [][InRunStrategy => (strategy' = strategy /\ strategies' = strategies)]_vars
    /\ [][(pc = "for_i" /\ pc' = "loop") =>
            /\ curr' = strategy.start
            /\ total_bet' = 0
            /\ nsteps' = 0]_vars
    /\ []((pc = "loop" /\ nsteps = 0) =>
            (curr = strategy.start /\ total_bet = 0))

\* C20 witness: a trial of a later policy has just been entered from the
\* start state although the trial before it ended won, elsewhere
C20_Witness ==
    /\ idx >= 2
    /\ pc = "loop"
    /\ nsteps = 0
    /\ result
    /\ strategy.start > 0
    /\ curr = strategy.start
    /\ total_bet = 0
    /\ bet = 0

====
